---- MODULE Spec2Model ----
(***************************************************************************)
(* A model of the two MCP servers of simple_mcp:                           *)
(*   crm-mcp-server/crm_server.py       (SQLite-backed CRM tools)          *)
(*   simple-file-reader/file_reader.py  (read_file / list_files)           *)
(* One action per branch of each server's handle_call_tool.  The state is  *)
(* the three SQLite tables, the wall clock the store reads, whether a      *)
(* store connection of a call is still open, the outcome of the call       *)
(* being answered, and the add_customer calls that are in flight together  *)
(* when the event loop holds more than one.  The timestamp columns of      *)
(* customers and deals (created_at, updated_at) are read by no handler     *)
(* predicate and are left out of the rows; interaction_date, which         *)
(* get_recent_interactions filters on, is kept.                            *)
(***************************************************************************)
EXTENDS Integers, Sequences, FiniteSets, TLC

VARIABLES customers, interactions, deals, now, conn_left_open, result, inflight

vars == <<customers, interactions, deals, now, conn_left_open, result, inflight>>

(***************************************************************************)
(* Bounds of the model.                                                    *)
(***************************************************************************)
\* rows the add_* tools may insert in one behaviour (sample rows not counted)
MaxRows == 3
\* clock advances in one behaviour
MaxTicks == 2
\* calls the event loop has in flight at once
MaxTasks == 2

(***************************************************************************)
(* JSON / SQLite values: tagged so that values of different types compare. *)
(* Numbers are whole; Real(n) stands for the float n.0.                    *)
(***************************************************************************)
Text(s) == <<"text", s>>
Integer(n) == <<"integer", n>>
Real(n) == <<"real", n>>
Null == <<"null">>
\* a JSON array: a value the store cannot bind as a parameter
Array == <<"array">>

IsNumber(v) == v[1] \in {"integer", "real"}

\* an argument bag with no key
EmptyBag == [k \in {} |-> Null]

\* dict.get(key, default)
Get(args, key, default) == IF key \in DOMAIN args THEN args[key] ELSE default

Has(args, key) == key \in DOMAIN args

(***************************************************************************)
(* str(uuid.uuid4()): a text no row of the table carries yet.  The model   *)
(* names it after the row it is made for (tag) and the number of rows of   *)
(* that tag the table holds, so that two rows never share one.             *)
(***************************************************************************)
Uuid(tag, n) == <<"text", tag, n>>

Uuid4(tag, table) == Uuid(tag, 1 + Cardinality({r \in table : r.id[2] = tag}))

\* what names a row in its identifier: the text of the column value
TagOf(v) == IF v[1] = "text" /\ Len(v) = 2 THEN v[2] ELSE v[1]

(***************************************************************************)
(* Column affinity of the store (SQLite): a REAL column stores an integer  *)
(* as the float of the same value, an INTEGER column stores a float with   *)
(* no fraction as the integer; text and NULL are stored as they are.       *)
(***************************************************************************)
RealAffinity(v) == IF v[1] = "integer" THEN Real(v[2]) ELSE v
IntegerAffinity(v) == IF v[1] = "real" THEN Integer(v[2]) ELSE v
TextAffinity(v) == v

(***************************************************************************)
(* handle_list_tools of the CRM server: the advertised tools, in order.    *)
(* A property is <<key, JSON type>>; enum maps a key to its allowed values.*)
(***************************************************************************)
Tool(name, properties, required, enum) ==
    [name |-> name, properties |-> properties, required |-> required, enum |-> enum]

NoEnum == [k \in {} |-> <<>>]

StageEnum == <<"prospecting", "qualification", "proposal", "negotiation", "closed-won", "closed-lost">>
SearchFieldEnum == <<"all", "name", "email", "company", "industry">>

CrmListTools ==
    << Tool("add_customer",
            << <<"first_name", "string">>, <<"last_name", "string">>, <<"email", "string">>,
               <<"phone", "string">>, <<"company", "string">>, <<"industry", "string">>,
               <<"annual_revenue", "number">>, <<"employee_count", "integer">>,
               <<"lead_source", "string">> >>,
            <<"first_name", "last_name", "email">>, NoEnum),
       Tool("search_customers",
            << <<"search_term", "string">>, <<"search_field", "string">> >>,
            <<"search_term">>, [search_field |-> SearchFieldEnum]),
       Tool("get_customer", << <<"customer_id", "string">> >>, <<"customer_id">>, NoEnum),
       Tool("add_interaction",
            << <<"customer_id", "string">>, <<"interaction_type", "string">>,
               <<"subject", "string">>, <<"notes", "string">> >>,
            <<"customer_id", "interaction_type">>, NoEnum),
       Tool("add_deal",
            << <<"customer_id", "string">>, <<"deal_name", "string">>, <<"value", "number">>,
               <<"stage", "string">>, <<"probability", "number">>,
               <<"expected_close_date", "string">> >>,
            <<"customer_id", "deal_name", "value">>, [stage |-> StageEnum]),
       Tool("populate_sample_data", <<>>, <<>>, NoEnum),
       Tool("analyze_customers_by_industry", <<>>, <<>>, NoEnum),
       Tool("analyze_deal_pipeline", <<>>, <<>>, NoEnum),
       Tool("get_top_customers_by_revenue", <<>>, <<>>, NoEnum),
       Tool("get_recent_interactions", << <<"days", "integer">> >>, <<>>, NoEnum) >>

(***************************************************************************)
(* handle_list_tools of the file reader.                                   *)
(***************************************************************************)
FileListTools ==
    << Tool("read_file", << <<"file_path", "string">> >>, <<"file_path">>, NoEnum),
       Tool("list_files", << <<"directory_path", "string">> >>, <<>>, NoEnum) >>

Range(seq) == {seq[i] : i \in DOMAIN seq}

\* a registry that loses its first tool once a deal is stored
ListToolsShrinking(server) ==
    LET tools == IF server = "crm" THEN CrmListTools ELSE FileListTools
    IN IF deals = {} THEN tools ELSE Tail(tools)

ListTools(server) == IF server = "crm" THEN CrmListTools ELSE FileListTools

ToolNames(server) == {t.name : t \in Range(ListTools(server))}

ToolDef(server, name) == CHOOSE t \in Range(ListTools(server)) : t.name = name

(***************************************************************************)
(* The outcome of a call of handle_call_tool.  A returned list holds one   *)
(* TextContent whose text is an f-string: fmt with arg in the place of {}, *)
(* then the json.dumps of rows when the handler appends it.  A raised      *)
(* exception leaves the handler: exc is its class, arg what it carries.    *)
(* calls counts the store or filesystem calls the handler made.            *)
(***************************************************************************)
Content(server, name, args, fmt, arg, rows, calls) ==
    [server |-> server, name |-> name, args |-> args, outcome |-> "content",
     exc |-> "", fmt |-> fmt, arg |-> arg, rows |-> rows, calls |-> calls]

Raise(server, name, args, exc, fmt, arg, calls) ==
    [server |-> server, name |-> name, args |-> args, outcome |-> "raise",
     exc |-> exc, fmt |-> fmt, arg |-> arg, rows |-> <<>>, calls |-> calls]

NoCall ==
    [server |-> "", name |-> "", args |-> EmptyBag, outcome |-> "none",
     exc |-> "", fmt |-> "", arg |-> Null, rows |-> <<>>, calls |-> 0]

\* the outcome of a call of handle_list_tools: the list of types.Tool
Tools(server, tools) ==
    [server |-> server, name |-> "", args |-> EmptyBag, outcome |-> "tools",
     exc |-> "", fmt |-> "", arg |-> Null, rows |-> tools, calls |-> 0]

\* str(KeyError(key)): the key in quotes
KeyErrorOf(key) == <<"keyerror", key>>

(***************************************************************************)
(* CRMDatabase.execute_query / execute_write: `with sqlite3.connect(...)`  *)
(* opens a connection of its own; leaving the block commits or rolls back  *)
(* and does not close the connection.  conn_left_open says that a          *)
(* connection a tool call opened is still open.                            *)
(***************************************************************************)
Connect == conn_left_open' = TRUE

(***************************************************************************)
(* The characters (code points) of the strings that reach a LIKE or an     *)
(* ORDER BY of the store.                                                  *)
(***************************************************************************)
Chars(s) ==
    CASE s = "" -> <<>>
      [] s = "Ann" -> <<65, 110, 110>>
      [] s = "Lee" -> <<76, 101, 101>>
      [] s = "ann@x.com" -> <<97, 110, 110, 64, 120, 46, 99, 111, 109>>
      [] s = "Bo" -> <<66, 111>>
      [] s = "Ng" -> <<78, 103>>
      [] s = "bo@y.org" -> <<98, 111, 64, 121, 46, 111, 114, 103>>
      [] s = "TechCorp" -> <<84, 101, 99, 104, 67, 111, 114, 112>>
      [] s = "Retail" -> <<82, 101, 116, 97, 105, 108>>
      [] s = "Jon" -> <<74, 111, 110>>
      [] s = "Doe" -> <<68, 111, 101>>
      [] s = "john.doe@techcorp.com" -> <<106, 111, 104, 110, 46, 100, 111, 101, 64, 116, 101, 99, 104, 99, 111, 114, 112, 46, 99, 111, 109>>
      [] s = "cy@z.net" -> <<99, 121, 64, 122, 46, 110, 101, 116>>
      [] s = "Di" -> <<68, 105>>
      [] s = "Ray" -> <<82, 97, 121>>
      [] s = "John" -> <<74, 111, 104, 110>>
      [] s = "Jane" -> <<74, 97, 110, 101>>
      [] s = "Smith" -> <<83, 109, 105, 116, 104>>
      [] s = "jane.smith@retailplus.com" -> <<106, 97, 110, 101, 46, 115, 109, 105, 116, 104, 64, 114, 101, 116, 97, 105, 108, 112, 108, 117, 115, 46, 99, 111, 109>>
      [] s = "RetailPlus" -> <<82, 101, 116, 97, 105, 108, 80, 108, 117, 115>>
      [] s = "Bob" -> <<66, 111, 98>>
      [] s = "Johnson" -> <<74, 111, 104, 110, 115, 111, 110>>
      [] s = "bob@manufacturing.com" -> <<98, 111, 98, 64, 109, 97, 110, 117, 102, 97, 99, 116, 117, 114, 105, 110, 103, 46, 99, 111, 109>>
      [] s = "ManufacturingCo" -> <<77, 97, 110, 117, 102, 97, 99, 116, 117, 114, 105, 110, 103, 67, 111>>
      [] s = "Manufacturing" -> <<77, 97, 110, 117, 102, 97, 99, 116, 117, 114, 105, 110, 103>>
      [] s = "Alice" -> <<65, 108, 105, 99, 101>>
      [] s = "Williams" -> <<87, 105, 108, 108, 105, 97, 109, 115>>
      [] s = "alice@healthsys.com" -> <<97, 108, 105, 99, 101, 64, 104, 101, 97, 108, 116, 104, 115, 121, 115, 46, 99, 111, 109>>
      [] s = "HealthSystems" -> <<72, 101, 97, 108, 116, 104, 83, 121, 115, 116, 101, 109, 115>>
      [] s = "Healthcare" -> <<72, 101, 97, 108, 116, 104, 99, 97, 114, 101>>
      [] s = "Charlie" -> <<67, 104, 97, 114, 108, 105, 101>>
      [] s = "Brown" -> <<66, 114, 111, 119, 110>>
      [] s = "charlie@fintech.com" -> <<99, 104, 97, 114, 108, 105, 101, 64, 102, 105, 110, 116, 101, 99, 104, 46, 99, 111, 109>>
      [] s = "FinTech Solutions" -> <<70, 105, 110, 84, 101, 99, 104, 32, 83, 111, 108, 117, 116, 105, 111, 110, 115>>
      [] s = "Financial" -> <<70, 105, 110, 97, 110, 99, 105, 97, 108>>
      [] s = "Technology" -> <<84, 101, 99, 104, 110, 111, 108, 111, 103, 121>>
      [] s = "tech" -> <<116, 101, 99, 104>>
      [] s = "ee" -> <<101, 101>>
      [] s = "Vale" -> <<86, 97, 108, 101>>
      [] s = "Edtech" -> <<69, 100, 116, 101, 99, 104>>
      [] s = "notes.txt" -> <<110, 111, 116, 101, 115, 46, 116, 120, 116>>
      [] s = "docs" -> <<100, 111, 99, 115>>
      [] s = "data.bin" -> <<100, 97, 116, 97, 46, 98, 105, 110>>
      [] s = "empty" -> <<101, 109, 112, 116, 121>>
      [] s = "Zed.md" -> <<90, 101, 100, 46, 109, 100>>
      [] s = "a.txt" -> <<97, 46, 116, 120, 116>>

\* lexicographic order of two sequences of integers (BINARY collation)
SeqLess(a, b) ==
    \E i \in 1..(Len(a) + 1) :
        /\ \A j \in 1..(i - 1) : j <= Len(b) /\ a[j] = b[j]
        /\ \/ i > Len(a) /\ Len(b) >= i
           \/ i <= Len(a) /\ i <= Len(b) /\ a[i] < b[i]

\* an ORDER BY key is a sequence of column keys, compared column by column
KeyLess(k1, k2) ==
    \E i \in DOMAIN k1 :
        /\ \A j \in 1..(i - 1) : k1[j] = k2[j]
        /\ SeqLess(k1[i], k2[i])

\* the key of a value in an ascending ORDER BY: NULL first, numbers by value,
\* text by its characters
AscKey(v) ==
    IF v = Null THEN <<0>>
    ELSE IF IsNumber(v) THEN <<1, v[2]>>
    ELSE <<2>> \o Chars(v[2])

\* the key of a number in a descending ORDER BY
DescKey(v) == IF v = Null THEN <<1>> ELSE <<0, 0 - v[2]>>

(***************************************************************************)
(* What a SELECT ... ORDER BY returns for the <<key, row>> pairs: the rows *)
(* ascending in the key.  The store leaves the order of rows of equal key  *)
(* open, so the result is kept as the sequence of the sets of rows of      *)
(* equal key.                                                              *)
(***************************************************************************)
RECURSIVE OrderBy(_)
OrderBy(pairs) ==
    IF pairs = {} THEN <<>>
    ELSE LET first == {q \in pairs : \A r \in pairs : ~KeyLess(r[1], q[1])}
         IN <<{p[2] : p \in first}>> \o OrderBy(pairs \ first)

\* len(results)
RECURSIVE Count(_)
Count(results) ==
    IF results = <<>> THEN 0 ELSE Cardinality(Head(results)) + Count(Tail(results))

\* the results a LIMIT n may keep: the first n rows, any of those of equal key
RECURSIVE Limit(_, _)
Limit(results, n) ==
    IF results = <<>> \/ n = 0 THEN {<<>>}
    ELSE IF Cardinality(Head(results)) <= n
    THEN { <<Head(results)>> \o rest :
           rest \in Limit(Tail(results), n - Cardinality(Head(results))) }
    ELSE { <<part>> : part \in {x \in SUBSET Head(results) : Cardinality(x) = n} }

\* ASCII lower case, as LIKE folds it
Lower(c) == IF c >= 65 /\ c <= 90 THEN c + 32 ELSE c

\* value LIKE '%term%': term occurs in value, ASCII case ignored; NULL never
\* matches
Like(v, term) ==
    /\ v # Null
    /\ LET cs == Chars(v[2])
           ts == Chars(term[2])
       IN \E i \in 1..(Len(cs) - Len(ts) + 1) :
              \A j \in 1..Len(ts) : Lower(cs[i + j - 1]) = Lower(ts[j])


(***************************************************************************)
(* The customers table: id primary key, first_name / last_name / email NOT *)
(* NULL, email UNIQUE, status defaulting to 'active'.                      *)
(***************************************************************************)
\* the row the store keeps for the parameters of an INSERT INTO customers
CustomerRow(params) ==
    [id |-> TextAffinity(params.id),
     first_name |-> TextAffinity(params.first_name),
     last_name |-> TextAffinity(params.last_name),
     email |-> TextAffinity(params.email),
     phone |-> TextAffinity(params.phone),
     company |-> TextAffinity(params.company),
     industry |-> TextAffinity(params.industry),
     annual_revenue |-> RealAffinity(params.annual_revenue),
     employee_count |-> IntegerAffinity(params.employee_count),
     status |-> Text("active"),
     lead_source |-> TextAffinity(params.lead_source)]

\* a customers table whose email column is not declared UNIQUE
CustomersConstraintNoUnique(table, row) ==
    IF row.first_name = Null THEN "NOT NULL constraint failed: customers.first_name"
    ELSE IF row.last_name = Null THEN "NOT NULL constraint failed: customers.last_name"
    ELSE IF row.email = Null THEN "NOT NULL constraint failed: customers.email"
    ELSE IF \E c \in table : c.id = row.id THEN "UNIQUE constraint failed: customers.id"
    ELSE ""

\* the constraint an INSERT INTO customers of row violates, "" when none
CustomersConstraint(table, row) ==
    IF row.first_name = Null THEN "NOT NULL constraint failed: customers.first_name"
    ELSE IF row.last_name = Null THEN "NOT NULL constraint failed: customers.last_name"
    ELSE IF row.email = Null THEN "NOT NULL constraint failed: customers.email"
    ELSE IF \E c \in table : c.id = row.id THEN "UNIQUE constraint failed: customers.id"
    ELSE IF \E c \in table : c.email = row.email THEN "UNIQUE constraint failed: customers.email"
    ELSE ""

\* a binding that puts first_name and last_name in each other's place
AddCustomerParamsSwapped(customer_id, arguments) ==
    [id |-> customer_id,
     first_name |-> Get(arguments, "last_name", Text("")),
     last_name |-> Get(arguments, "first_name", Text("")),
     email |-> Get(arguments, "email", Text("")),
     phone |-> Get(arguments, "phone", Text("")),
     company |-> Get(arguments, "company", Text("")),
     industry |-> Get(arguments, "industry", Text("")),
     annual_revenue |-> Get(arguments, "annual_revenue", Real(0)),
     employee_count |-> Get(arguments, "employee_count", Integer(0)),
     lead_source |-> Get(arguments, "lead_source", Text(""))]

\* the parameters add_customer binds
AddCustomerParams(customer_id, arguments) ==
    [id |-> customer_id,
     first_name |-> Get(arguments, "first_name", Text("")),
     last_name |-> Get(arguments, "last_name", Text("")),
     email |-> Get(arguments, "email", Text("")),
     phone |-> Get(arguments, "phone", Text("")),
     company |-> Get(arguments, "company", Text("")),
     industry |-> Get(arguments, "industry", Text("")),
     annual_revenue |-> Get(arguments, "annual_revenue", Real(0)),
     employee_count |-> Get(arguments, "employee_count", Integer(0)),
     lead_source |-> Get(arguments, "lead_source", Text(""))]

\* populate_sample_data's sample_customers
SampleCustomers ==
    << [first_name |-> Text("John"), last_name |-> Text("Doe"),
        email |-> Text("john.doe@techcorp.com"), phone |-> Text("+1-555-0101"),
        company |-> Text("TechCorp"), industry |-> Text("Technology"),
        annual_revenue |-> Integer(5000000), employee_count |-> Integer(50),
        lead_source |-> Text("website")],
       [first_name |-> Text("Jane"), last_name |-> Text("Smith"),
        email |-> Text("jane.smith@retailplus.com"), phone |-> Text("+1-555-0102"),
        company |-> Text("RetailPlus"), industry |-> Text("Retail"),
        annual_revenue |-> Integer(2000000), employee_count |-> Integer(25),
        lead_source |-> Text("referral")],
       [first_name |-> Text("Bob"), last_name |-> Text("Johnson"),
        email |-> Text("bob@manufacturing.com"), phone |-> Text("+1-555-0103"),
        company |-> Text("ManufacturingCo"), industry |-> Text("Manufacturing"),
        annual_revenue |-> Integer(10000000), employee_count |-> Integer(100),
        lead_source |-> Text("trade_show")],
       [first_name |-> Text("Alice"), last_name |-> Text("Williams"),
        email |-> Text("alice@healthsys.com"), phone |-> Text("+1-555-0104"),
        company |-> Text("HealthSystems"), industry |-> Text("Healthcare"),
        annual_revenue |-> Integer(15000000), employee_count |-> Integer(200),
        lead_source |-> Text("cold_call")],
       [first_name |-> Text("Charlie"), last_name |-> Text("Brown"),
        email |-> Text("charlie@fintech.com"), phone |-> Text("+1-555-0105"),
        company |-> Text("FinTech Solutions"), industry |-> Text("Financial"),
        annual_revenue |-> Integer(8000000), employee_count |-> Integer(75),
        lead_source |-> Text("linkedin")] >>

SampleEmails == {SampleCustomers[i].email : i \in DOMAIN SampleCustomers}

\* INSERT OR IGNORE INTO customers: a row that violates a constraint is skipped
InsertOrIgnore(table, row) ==
    IF CustomersConstraint(table, row) = "" THEN table \cup {row} ELSE table

\* the loop of populate_sample_data from its i-th sample on, each with a new id
RECURSIVE PopulateFrom(_, _)
PopulateFrom(table, i) ==
    IF i > Len(SampleCustomers) THEN table
    ELSE LET customer_id == Uuid4(TagOf(SampleCustomers[i].email), table)
             params == [id |-> customer_id] @@ SampleCustomers[i]
         IN PopulateFrom(InsertOrIgnore(table, CustomerRow(params)), i + 1)

\* rows the add_* tools have inserted: what MaxRows bounds
RowsAdded ==
    Cardinality({c \in customers : c.email \notin SampleEmails})
    + Cardinality(interactions) + Cardinality(deals)


\* sqlite3 raises on a parameter of a type it cannot bind
BindError(params) == \E k \in DOMAIN params : params[k] = Array

(***************************************************************************)
(* The argument bags the calls are tried with.                             *)
(***************************************************************************)
AddCustomerBags ==
    { [first_name |-> Text("Ann"), last_name |-> Text("Lee"), email |-> Text("ann@x.com")],
      [first_name |-> Text("Bo"), last_name |-> Text("Ng"), email |-> Text("bo@y.org"),
       phone |-> Text("+1-555-0199"), company |-> Text("TechCorp"),
       industry |-> Text("Retail"), annual_revenue |-> Integer(7000000),
       employee_count |-> Integer(12), lead_source |-> Text("referral")],
      [last_name |-> Text("Doe"), email |-> Text("john.doe@techcorp.com")],
      [first_name |-> Text("Ann"), last_name |-> Null, email |-> Text("ann@x.com")],
      [first_name |-> Array, last_name |-> Text("Lee"), email |-> Text("ann@x.com")] }

SearchCustomersBags ==
    { [search_term |-> Text("tech")],
      [search_term |-> Text("tech"), search_field |-> Text("all")],
      [search_term |-> Text("tech"), search_field |-> Text("name")],
      [search_term |-> Text("tech"), search_field |-> Text("email")],
      [search_term |-> Text("tech"), search_field |-> Text("company")],
      [search_term |-> Text("ee"), search_field |-> Text("industry")],
      [search_term |-> Text("tech"), search_field |-> Text("phone")],
      [search_field |-> Text("all")] }

GetCustomerBags ==
    { [customer_id |-> Uuid("ann@x.com", 1)], [customer_id |-> Uuid("bo@y.org", 1)],
      [customer_id |-> Text("no-such-id")], EmptyBag }

(***************************************************************************)
(* handle_call_tool of the CRM server, branch add_customer.                *)
(***************************************************************************)
AddCustomer(arguments) ==
    LET customer_id == Uuid4(TagOf(Get(arguments, "email", Text(""))), customers)
        params == AddCustomerParams(customer_id, arguments)
        row == CustomerRow(params)
        err == IF BindError(params) THEN "Error binding parameter"
               ELSE CustomersConstraint(customers, row)
    IN /\ err = "" => RowsAdded < MaxRows
       /\ Connect
       /\ customers' = IF err = "" THEN customers \cup {row} ELSE customers
       /\ result' =
            IF err = ""
            THEN Content("crm", "add_customer", arguments,
                         "Customer successfully added with ID: {}", customer_id, <<>>, 1)
            ELSE IF err = "UNIQUE constraint failed: customers.email"
            THEN Content("crm", "add_customer", arguments,
                         "Error: Customer with email {} already exists",
                         Get(arguments, "email", Null), <<>>, 1)
            ELSE IF BindError(params)
            THEN Content("crm", "add_customer", arguments,
                         "Error adding customer: {}", Text(err), <<>>, 1)
            ELSE Content("crm", "add_customer", arguments,
                         "Database error: {}", Text(err), <<>>, 1)
       /\ UNCHANGED <<interactions, deals, now, inflight>>

(***************************************************************************)
(* Branch search_customers.                                                *)
(***************************************************************************)
\* the customers the query of search_field selects, paired with its ORDER BY key
SearchQuery(table, search_field, search_term) ==
    IF search_field = Text("all")
    THEN { <<(<<AscKey(c.last_name), AscKey(c.first_name)>>), c>> :
           c \in {c \in table : \/ Like(c.first_name, search_term)
                                \/ Like(c.last_name, search_term)
                                \/ Like(c.email, search_term)
                                \/ Like(c.company, search_term)
                                \/ Like(c.industry, search_term)} }
    ELSE IF search_field = Text("name")
    THEN { <<(<<AscKey(c.last_name), AscKey(c.first_name)>>), c>> :
           c \in {c \in table : \/ Like(c.first_name, search_term)
                                \/ Like(c.last_name, search_term)} }
    ELSE IF search_field = Text("email")
    THEN { <<(<<AscKey(c.email)>>), c>> : c \in {c \in table : Like(c.email, search_term)} }
    ELSE IF search_field = Text("company")
    THEN { <<(<<AscKey(c.company)>>), c>> : c \in {c \in table : Like(c.company, search_term)} }
    ELSE { <<(<<AscKey(c.industry)>>), c>> : c \in {c \in table : Like(c.industry, search_term)} }

SearchFields == {Text("all"), Text("name"), Text("email"), Text("company"), Text("industry")}

SearchCustomers(arguments) ==
    IF ~Has(arguments, "search_term")
    THEN /\ result' = Content("crm", "search_customers", arguments,
                              "Error searching customers: {}", KeyErrorOf("search_term"), <<>>, 0)
         /\ UNCHANGED <<customers, interactions, deals, now, conn_left_open, inflight>>
    ELSE LET search_term == arguments["search_term"]
             search_field == Get(arguments, "search_field", Text("all"))
         IN IF search_field \notin SearchFields
            THEN /\ result' = Content("crm", "search_customers", arguments,
                                      "Invalid search field: {}. Use: all, name, email, company, or industry",
                                      search_field, <<>>, 0)
                 /\ UNCHANGED <<customers, interactions, deals, now, conn_left_open, inflight>>
            ELSE /\ Connect
                 /\ LET results == OrderBy(SearchQuery(customers, search_field, search_term))
                    IN result' =
                          IF results = <<>>
                          THEN Content("crm", "search_customers", arguments,
                                       "No customers found matching '{}' in {}",
                                       <<"pair", search_term, search_field>>, <<>>, 1)
                          ELSE Content("crm", "search_customers", arguments,
                                       "Found {} customers:", Integer(Count(results)), results, 1)
                 /\ UNCHANGED <<customers, interactions, deals, now, inflight>>

(***************************************************************************)
(* Branch get_customer.                                                    *)
(***************************************************************************)
GetCustomer(arguments) ==
    IF ~Has(arguments, "customer_id")
    THEN /\ result' = Content("crm", "get_customer", arguments,
                              "Error retrieving customer: {}", KeyErrorOf("customer_id"), <<>>, 0)
         /\ UNCHANGED <<customers, interactions, deals, now, conn_left_open, inflight>>
    ELSE /\ Connect
         /\ LET results == OrderBy({ <<(<<>>), c>> :
                                      c \in {c \in customers : c.id = arguments["customer_id"]} })
            IN IF results = <<>>
               THEN result' = Content("crm", "get_customer", arguments,
                                      "No customer found with ID: {}",
                                      arguments["customer_id"], <<>>, 1)
               ELSE \E customer \in results[1] :
                        result' = Content("crm", "get_customer", arguments,
                                          "Customer Details:", Null, <<{customer}>>, 1)
         /\ UNCHANGED <<customers, interactions, deals, now, inflight>>

(***************************************************************************)
(* Branch populate_sample_data: five INSERT OR IGNORE, one connection each.*)
(***************************************************************************)
PopulateSampleData(arguments) ==
    /\ Connect
    /\ customers' = PopulateFrom(customers, 1)
    /\ result' = Content("crm", "populate_sample_data", arguments,
                         "Sample data populated successfully! Added 5 sample customers.",
                         Null, <<>>, Len(SampleCustomers))
    /\ UNCHANGED <<interactions, deals, now, inflight>>


(***************************************************************************)
(* The interactions and deals tables.  Their FOREIGN KEY clauses are       *)
(* declared, and the connections never turn foreign-key enforcement on     *)
(* (no PRAGMA foreign_keys), so an INSERT checks NOT NULL only.            *)
(***************************************************************************)
InteractionRow(params, clock) ==
    [id |-> TextAffinity(params.id),
     customer_id |-> TextAffinity(params.customer_id),
     interaction_type |-> TextAffinity(params.interaction_type),
     subject |-> TextAffinity(params.subject),
     notes |-> TextAffinity(params.notes),
     interaction_date |-> clock]

InteractionsConstraint(table, row) ==
    IF row.customer_id = Null THEN "NOT NULL constraint failed: interactions.customer_id"
    ELSE IF row.interaction_type = Null
    THEN "NOT NULL constraint failed: interactions.interaction_type"
    ELSE IF \E i \in table : i.id = row.id THEN "UNIQUE constraint failed: interactions.id"
    ELSE ""

DealRow(params) ==
    [id |-> TextAffinity(params.id),
     customer_id |-> TextAffinity(params.customer_id),
     deal_name |-> TextAffinity(params.deal_name),
     value |-> RealAffinity(params.value),
     stage |-> TextAffinity(params.stage),
     probability |-> RealAffinity(params.probability),
     expected_close_date |-> params.expected_close_date]

DealsConstraint(table, row) ==
    IF row.customer_id = Null THEN "NOT NULL constraint failed: deals.customer_id"
    ELSE IF row.deal_name = Null THEN "NOT NULL constraint failed: deals.deal_name"
    ELSE IF row.value = Null THEN "NOT NULL constraint failed: deals.value"
    ELSE IF \E d \in table : d.id = row.id THEN "UNIQUE constraint failed: deals.id"
    ELSE ""

\* the first key of keys that the bag lacks (the KeyError of arguments[key]), "" when none
RECURSIVE FirstMissing(_, _)
FirstMissing(arguments, keys) ==
    IF keys = <<>> THEN ""
    ELSE IF ~Has(arguments, Head(keys)) THEN Head(keys)
    ELSE FirstMissing(arguments, Tail(keys))

AddInteractionBags ==
    { [customer_id |-> Uuid("ann@x.com", 1), interaction_type |-> Text("call"),
       subject |-> Text("Kick-off"), notes |-> Text("Asked for a quote")],
      [customer_id |-> Text("no-such-id"), interaction_type |-> Text("email")],
      [interaction_type |-> Text("call")],
      [customer_id |-> Uuid("ann@x.com", 1)] }

AddDealBags ==
    { [customer_id |-> Uuid("ann@x.com", 1), deal_name |-> Text("Renewal"), value |-> Integer(1000)],
      [customer_id |-> Uuid("ann@x.com", 1), deal_name |-> Text("Upsell"), value |-> Real(2500),
       stage |-> Text("closed-won"), probability |-> Real(1),
       expected_close_date |-> Text("2026-01-31")],
      [customer_id |-> Uuid("bo@y.org", 1), deal_name |-> Text("Pilot"), value |-> Integer(400),
       stage |-> Text("negotiation")],
      [customer_id |-> Text("no-such-id"), deal_name |-> Text("Ghost"), value |-> Integer(10),
       stage |-> Text("on-hold")],
      [deal_name |-> Text("Renewal"), value |-> Integer(1000)],
      [customer_id |-> Uuid("ann@x.com", 1), value |-> Integer(1000)],
      [customer_id |-> Uuid("ann@x.com", 1), deal_name |-> Text("Renewal")] }

(***************************************************************************)
(* Branch add_interaction.                                                 *)
(***************************************************************************)
AddInteraction(arguments) ==
    LET missing == FirstMissing(arguments, <<"customer_id", "interaction_type">>)
    IN IF missing # ""
       THEN /\ result' = Content("crm", "add_interaction", arguments,
                                 "Error adding interaction: {}", KeyErrorOf(missing), <<>>, 0)
            /\ UNCHANGED <<customers, interactions, deals, now, conn_left_open, inflight>>
       ELSE LET interaction_id == Uuid4(TagOf(arguments["interaction_type"]), interactions)
                params == [id |-> interaction_id,
                           customer_id |-> arguments["customer_id"],
                           interaction_type |-> arguments["interaction_type"],
                           subject |-> Get(arguments, "subject", Text("")),
                           notes |-> Get(arguments, "notes", Text(""))]
                row == InteractionRow(params, now)
                err == IF BindError(params) THEN "Error binding parameter"
                       ELSE InteractionsConstraint(interactions, row)
            IN /\ err = "" => RowsAdded < MaxRows
               /\ Connect
               /\ interactions' = IF err = "" THEN interactions \cup {row} ELSE interactions
               /\ result' =
                    IF err = ""
                    THEN Content("crm", "add_interaction", arguments,
                                 "Interaction successfully added with ID: {}",
                                 interaction_id, <<>>, 1)
                    ELSE Content("crm", "add_interaction", arguments,
                                 "Error adding interaction: {}", Text(err), <<>>, 1)
               /\ UNCHANGED <<customers, deals, now, inflight>>

(***************************************************************************)
(* Branch add_deal.                                                        *)
(***************************************************************************)
\* a binding whose stage falls back to another stage of the enumeration
AddDealParamsOtherStage(deal_id, arguments) ==
    [id |-> deal_id,
     customer_id |-> arguments["customer_id"],
     deal_name |-> arguments["deal_name"],
     value |-> arguments["value"],
     stage |-> Get(arguments, "stage", Text("qualification")),
     probability |-> Get(arguments, "probability", Real(0)),
     expected_close_date |-> Get(arguments, "expected_close_date", Null)]

AddDealParams(deal_id, arguments) ==
    [id |-> deal_id,
     customer_id |-> arguments["customer_id"],
     deal_name |-> arguments["deal_name"],
     value |-> arguments["value"],
     stage |-> Get(arguments, "stage", Text("prospecting")),
     probability |-> Get(arguments, "probability", Real(0)),
     expected_close_date |-> Get(arguments, "expected_close_date", Null)]

AddDeal(arguments) ==
    LET missing == FirstMissing(arguments, <<"customer_id", "deal_name", "value">>)
    IN IF missing # ""
       THEN /\ result' = Content("crm", "add_deal", arguments,
                                 "Error adding deal: {}", KeyErrorOf(missing), <<>>, 0)
            /\ UNCHANGED <<customers, interactions, deals, now, conn_left_open, inflight>>
       ELSE LET deal_id == Uuid4(TagOf(arguments["deal_name"]), deals)
                params == AddDealParams(deal_id, arguments)
                row == DealRow(params)
                err == IF BindError(params) THEN "Error binding parameter"
                       ELSE DealsConstraint(deals, row)
            IN /\ err = "" => RowsAdded < MaxRows
               /\ Connect
               /\ deals' = IF err = "" THEN deals \cup {row} ELSE deals
               /\ result' =
                    IF err = ""
                    THEN Content("crm", "add_deal", arguments,
                                 "Deal successfully added with ID: {}", deal_id, <<>>, 1)
                    ELSE Content("crm", "add_deal", arguments,
                                 "Error adding deal: {}", Text(err), <<>>, 1)
               /\ UNCHANGED <<customers, interactions, now, inflight>>


(***************************************************************************)
(* Aggregates of the store.  SUM adds the column over the rows of a group; *)
(* AVG is kept as the pair of the sum and the count it divides.            *)
(***************************************************************************)
RECURSIVE SumColumn(_, _)
SumColumn(rows, column) ==
    IF rows = {} THEN 0
    ELSE LET r == CHOOSE x \in rows : TRUE
         IN r[column][2] + SumColumn(rows \ {r}, column)

RECURSIVE SumWeighted(_)
SumWeighted(rows) ==
    IF rows = {} THEN 0
    ELSE LET r == CHOOSE x \in rows : TRUE
         IN r.value[2] * r.probability[2] + SumWeighted(rows \ {r})

Avg(rows, column) == <<"avg", SumColumn(rows, column), Cardinality(rows)>>

(***************************************************************************)
(* Branch analyze_customers_by_industry.                                   *)
(***************************************************************************)
IndustryGroups(table) ==
    LET kept == {c \in table : c.industry # Null /\ c.industry # Text("")}
        group(ind) == {c \in kept : c.industry = ind}
    IN { [industry |-> ind,
          customer_count |-> Integer(Cardinality(group(ind))),
          avg_revenue |-> Avg(group(ind), "annual_revenue"),
          total_revenue |-> Real(SumColumn(group(ind), "annual_revenue")),
          avg_employees |-> Avg(group(ind), "employee_count")] :
         ind \in {c.industry : c \in kept} }

AnalyzeCustomersByIndustry(arguments) ==
    /\ Connect
    /\ LET results == OrderBy({ <<(<<DescKey(g.customer_count)>>), g>> :
                                 g \in IndustryGroups(customers) })
       IN result' =
             IF results = <<>>
             THEN Content("crm", "analyze_customers_by_industry", arguments,
                          "No industry data available", Null, <<>>, 1)
             ELSE Content("crm", "analyze_customers_by_industry", arguments,
                          "Customer Analysis by Industry:", Null, results, 1)
    /\ UNCHANGED <<customers, interactions, deals, now, inflight>>

(***************************************************************************)
(* Branch analyze_deal_pipeline.                                           *)
(***************************************************************************)
\* an ORDER BY stage: the rank of a stage among the names in alphabetical order
StageRankAlphabetical(stage) ==
    IF stage = Text("closed-lost") THEN 1
    ELSE IF stage = Text("closed-won") THEN 2
    ELSE IF stage = Text("negotiation") THEN 3
    ELSE IF stage = Text("proposal") THEN 4
    ELSE IF stage = Text("prospecting") THEN 5
    ELSE IF stage = Text("qualification") THEN 6
    ELSE 7

\* the CASE of the ORDER BY
StageRank(stage) ==
    IF stage = Text("prospecting") THEN 1
    ELSE IF stage = Text("qualification") THEN 2
    ELSE IF stage = Text("proposal") THEN 3
    ELSE IF stage = Text("negotiation") THEN 4
    ELSE IF stage = Text("closed-won") THEN 5
    ELSE IF stage = Text("closed-lost") THEN 6
    ELSE 7

PipelineGroups(table) ==
    LET group(st) == {d \in table : d.stage = st}
    IN { [stage |-> st,
          deal_count |-> Integer(Cardinality(group(st))),
          total_value |-> Real(SumColumn(group(st), "value")),
          avg_deal_size |-> Avg(group(st), "value"),
          avg_probability |-> Avg(group(st), "probability"),
          weighted_value |-> Real(SumWeighted(group(st)))] :
         st \in {d.stage : d \in table} }

AnalyzeDealPipeline(arguments) ==
    /\ Connect
    /\ LET results == OrderBy({ <<(<<(<<StageRank(g.stage)>>)>>), g>> :
                                 g \in PipelineGroups(deals) })
       IN result' =
             IF results = <<>>
             THEN Content("crm", "analyze_deal_pipeline", arguments,
                          "No deals in pipeline", Null, <<>>, 1)
             ELSE Content("crm", "analyze_deal_pipeline", arguments,
                          "Deal Pipeline Analysis:", Null, results, 1)
    /\ UNCHANGED <<customers, interactions, deals, now, inflight>>

(***************************************************************************)
(* Branch get_top_customers_by_revenue.                                    *)
(***************************************************************************)
TopLimit == 10

TopQuery(table) ==
    { <<(<<DescKey(c.annual_revenue)>>),
        [first_name |-> c.first_name, last_name |-> c.last_name, company |-> c.company,
         industry |-> c.industry, annual_revenue |-> c.annual_revenue, email |-> c.email]>> :
      c \in {c \in table : c.annual_revenue # Null /\ c.annual_revenue[2] > 0} }

GetTopCustomersByRevenue(arguments) ==
    /\ Connect
    /\ \E results \in Limit(OrderBy(TopQuery(customers)), TopLimit) :
           result' =
                IF results = <<>>
                THEN Content("crm", "get_top_customers_by_revenue", arguments,
                             "No customers with revenue data found", Null, <<>>, 1)
                ELSE Content("crm", "get_top_customers_by_revenue", arguments,
                             "Top Customers by Revenue:", Null, results, 1)
    /\ UNCHANGED <<customers, interactions, deals, now, inflight>>

(***************************************************************************)
(* Branch get_recent_interactions.  The clock counts hours.                *)
(***************************************************************************)
DefaultDays == 7

\* a window start that takes the number for hours: datetime('now', '-n hours')
WindowStartHours(clock, days) ==
    IF IsNumber(days) /\ days[2] >= 0 THEN Integer(clock - days[2]) ELSE Null

\* datetime('now', '-' || days || ' days'): NULL when the modifier is no
\* number of days (a text, a NULL, a negative number, which gives '--n days')
WindowStart(clock, days) ==
    IF IsNumber(days) /\ days[2] >= 0 THEN Integer(clock - 24 * days[2]) ELSE Null

RecentQuery(ints, custs, clock, days) ==
    LET start == WindowStart(clock, days)
    IN { <<(<<DescKey(Integer(i.interaction_date))>>),
           [id |-> i.id, customer_id |-> i.customer_id,
            interaction_type |-> i.interaction_type, subject |-> i.subject,
            notes |-> i.notes, interaction_date |-> i.interaction_date,
            first_name |-> c.first_name, last_name |-> c.last_name, company |-> c.company]>> :
         <<i, c>> \in {p \in ints \X custs :
                          /\ p[1].customer_id = p[2].id
                          /\ start # Null
                          /\ p[1].interaction_date >= start[2]} }

GetRecentInteractionsBags ==
    { EmptyBag, [days |-> Integer(1)], [days |-> Integer(0 - 1)],
      [days |-> Text("soon")], [days |-> Array] }

GetRecentInteractions(arguments) ==
    LET days == Get(arguments, "days", Integer(DefaultDays))
    IN /\ Connect
       /\ IF BindError([days |-> days])
          THEN result' = Content("crm", "get_recent_interactions", arguments,
                                 "Error retrieving recent interactions: {}",
                                 Text("Error binding parameter"), <<>>, 1)
          ELSE LET results == OrderBy(RecentQuery(interactions, customers, now, days))
               IN result' =
                    IF results = <<>>
                    THEN Content("crm", "get_recent_interactions", arguments,
                                 "No interactions found in the last {} days", days, <<>>, 1)
                    ELSE Content("crm", "get_recent_interactions", arguments,
                                 "Recent Interactions (Last {} days):", days, results, 1)
       /\ UNCHANGED <<customers, interactions, deals, now, inflight>>

(***************************************************************************)
(* The else of the chain: a name no branch tests.                          *)
(***************************************************************************)
\* a chain that has no branch for the last advertised tool
CrmBranchesShort ==
    {"add_customer", "search_customers", "get_customer", "add_interaction", "add_deal",
     "populate_sample_data", "analyze_customers_by_industry", "analyze_deal_pipeline",
     "get_top_customers_by_revenue"}

CrmBranches ==
    {"add_customer", "search_customers", "get_customer", "add_interaction", "add_deal",
     "populate_sample_data", "analyze_customers_by_industry", "analyze_deal_pipeline",
     "get_top_customers_by_revenue", "get_recent_interactions"}

\* the names calls are tried with: every advertised one and one that no server has
CallNames == ToolNames("crm") \cup ToolNames("file-reader") \cup {"delete_customer"}

CrmUnknownTool(name, arguments) ==
    /\ name \notin CrmBranches
    /\ result' = Raise("crm", name, arguments, "ValueError", "Unknown tool: {}", Text(name), 0)
    /\ UNCHANGED <<customers, interactions, deals, now, conn_left_open, inflight>>

(***************************************************************************)
(* Requests are served one at a time: a call is taken when no outcome is   *)
(* waiting to be sent back.                                                *)
(***************************************************************************)
Accept == result.outcome = "none"

(***************************************************************************)
(* The wall clock the store reads (CURRENT_TIMESTAMP, datetime('now')), in *)
(* hours: between calls it advances by an hour, by two days or by a week.  *)
(***************************************************************************)
NumTicks(clock) == (clock \div 168) + ((clock % 168) \div 48) + (clock % 48)

Tick ==
    /\ Accept
    /\ NumTicks(now) < MaxTicks
    /\ \E dt \in {1, 48, 168} : now' = now + dt
    /\ UNCHANGED <<customers, interactions, deals, conn_left_open, result, inflight>>

(***************************************************************************)
(* The file reader.  A path is the sequence of its components ("/" first   *)
(* for an absolute one, "~" first for one under the home directory); the   *)
(* filesystem maps the paths that exist to what is there.  No tool writes  *)
(* to it.                                                                  *)
(***************************************************************************)
Path(components) == <<"text", components>>

Home == <<"/", "home", "user">>

File(readable, utf8, content) ==
    [kind |-> "file", readable |-> readable, utf8 |-> utf8, content |-> content, entries |-> {}]

Dir(readable, entries) ==
    [kind |-> "dir", readable |-> readable, utf8 |-> FALSE, content |-> "", entries |-> entries]

FileSystem ==
    (Home :> Dir(TRUE, {"notes.txt", "docs", "data.bin", "empty", "Zed.md"}))
    @@ ((Home \o <<"notes.txt">>) :> File(TRUE, TRUE, "remember the milk"))
    @@ ((Home \o <<"Zed.md">>) :> File(TRUE, TRUE, ""))
    @@ ((Home \o <<"data.bin">>) :> File(TRUE, FALSE, ""))
    @@ ((Home \o <<"docs">>) :> Dir(TRUE, {"a.txt"}))
    @@ ((Home \o <<"docs", "a.txt">>) :> File(TRUE, TRUE, "A"))
    @@ ((Home \o <<"empty">>) :> Dir(TRUE, {}))
    @@ (<<"/", "root">> :> Dir(FALSE, {"secret"}))
    @@ (<<"/", "etc", "shadow">> :> File(FALSE, TRUE, "x"))

\* os.path.expanduser: a leading ~ becomes the home directory
ExpandUser(path) ==
    IF path # <<>> /\ Head(path) = "~" THEN Home \o Tail(path) ELSE path

Exists(path) == path \in DOMAIN FileSystem
IsFile(path) == Exists(path) /\ FileSystem[path].kind = "file"
IsDir(path) == Exists(path) /\ FileSystem[path].kind = "dir"

\* a listing in descending order of code points
SortedDescending(names) ==
    LET ordered == OrderBy({ <<(<<Chars(n)>>), n>> : n \in names })
    IN [i \in DOMAIN ordered |-> CHOOSE n \in ordered[Len(ordered) + 1 - i] : TRUE]

\* sorted(names): ascending by code points
Sorted(names) ==
    LET ordered == OrderBy({ <<(<<Chars(n)>>), n>> : n \in names })
    IN [i \in DOMAIN ordered |-> CHOOSE n \in ordered[i] : TRUE]

ReadFileBags ==
    { EmptyBag,
      [file_path |-> Integer(42)],
      [file_path |-> Path(<<"~", "notes.txt">>)],
      [file_path |-> Path(Home \o <<"notes.txt">>)],
      [file_path |-> Path(<<"~", "missing.txt">>)],
      [file_path |-> Path(<<"~", "docs">>)],
      [file_path |-> Path(<<"~", "data.bin">>)],
      [file_path |-> Path(<<"/", "etc", "shadow">>)] }

ListFilesBags ==
    { EmptyBag,
      [directory_path |-> Integer(42)],
      [directory_path |-> Path(<<"~">>)],
      [directory_path |-> Path(<<"~", "empty">>)],
      [directory_path |-> Path(<<"~", "docs">>)],
      [directory_path |-> Path(<<"~", "notes.txt">>)],
      [directory_path |-> Path(<<"/", "nope">>)],
      [directory_path |-> Path(<<"/", "root">>)] }

\* str: the strings os.path accepts; anything else raises TypeError in expanduser
IsStr(v) == v[1] = "text"

(***************************************************************************)
(* handle_call_tool of the file reader, branch read_file.                  *)
(***************************************************************************)
ReadFile(arguments) ==
    /\ UNCHANGED <<customers, interactions, deals, now, conn_left_open, inflight>>
    /\ IF ~Has(arguments, "file_path")
       THEN result' = Raise("file-reader", "read_file", arguments, "KeyError", "{}",
                            KeyErrorOf("file_path"), 0)
       ELSE IF ~IsStr(arguments["file_path"])
       THEN result' = Raise("file-reader", "read_file", arguments, "TypeError",
                            "expected str, bytes or os.PathLike object, not {}",
                            arguments["file_path"], 0)
       ELSE LET file_path == ExpandUser(arguments["file_path"][2])
            IN IF ~Exists(file_path)
               THEN result' = Content("file-reader", "read_file", arguments,
                                      "Error: File '{}' does not exist", Path(file_path), <<>>, 1)
               ELSE IF ~IsFile(file_path)
               THEN result' = Content("file-reader", "read_file", arguments,
                                      "Error: '{}' is not a file", Path(file_path), <<>>, 2)
               ELSE IF ~FileSystem[file_path].readable
               THEN result' = Content("file-reader", "read_file", arguments,
                                      "Error: Permission denied reading '{}'",
                                      Path(file_path), <<>>, 3)
               ELSE IF ~FileSystem[file_path].utf8
               THEN result' = Content("file-reader", "read_file", arguments,
                                      "Error: Cannot read '{}' - file appears to be binary or not UTF-8 encoded",
                                      Path(file_path), <<>>, 3)
               ELSE result' = Content("file-reader", "read_file", arguments,
                                      "Content of '{}':", Path(file_path),
                                      <<FileSystem[file_path].content>>, 3)

(***************************************************************************)
(* Branch list_files.                                                      *)
(***************************************************************************)
\* one line of the listing: a directory is marked, with a trailing slash
Item(directory_path, item) ==
    [marker |-> IF IsDir(directory_path \o <<item>>) THEN "dir" ELSE "file", name |-> item]

ListItems(directory_path) ==
    LET names == Sorted(FileSystem[directory_path].entries)
    IN [i \in DOMAIN names |-> Item(directory_path, names[i])]

ListFiles(arguments) ==
    /\ UNCHANGED <<customers, interactions, deals, now, conn_left_open, inflight>>
    /\ LET given == Get(arguments, "directory_path", Path(<<"~">>))
       IN IF ~IsStr(given)
          THEN result' = Raise("file-reader", "list_files", arguments, "TypeError",
                               "expected str, bytes or os.PathLike object, not {}", given, 0)
          ELSE LET directory_path == ExpandUser(given[2])
               IN IF ~Exists(directory_path)
                  THEN result' = Content("file-reader", "list_files", arguments,
                                         "Error: Directory '{}' does not exist",
                                         Path(directory_path), <<>>, 1)
                  ELSE IF ~IsDir(directory_path)
                  THEN result' = Content("file-reader", "list_files", arguments,
                                         "Error: '{}' is not a directory",
                                         Path(directory_path), <<>>, 2)
                  ELSE IF ~FileSystem[directory_path].readable
                  THEN result' = Content("file-reader", "list_files", arguments,
                                         "Error: Permission denied accessing '{}'",
                                         Path(directory_path), <<>>, 3)
                  ELSE result' = Content("file-reader", "list_files", arguments,
                                         "Contents of '{}':", Path(directory_path),
                                         ListItems(directory_path),
                                         3 + Cardinality(FileSystem[directory_path].entries))

FileBranches == {"read_file", "list_files"}

FileUnknownTool(name, arguments) ==
    /\ name \notin FileBranches
    /\ result' = Raise("file-reader", name, arguments, "ValueError", "Unknown tool: {}",
                       Text(name), 0)
    /\ UNCHANGED <<customers, interactions, deals, now, conn_left_open, inflight>>

(***************************************************************************)
(* handle_list_tools of either server: it builds the list anew and returns *)
(* it; it reads and writes nothing else.                                   *)
(***************************************************************************)
HandleListTools(server) ==
    /\ result' = Tools(server, ListTools(server))
    /\ UNCHANGED <<customers, interactions, deals, now, conn_left_open, inflight>>

(***************************************************************************)
(* add_customer calls in flight together.  The handler is a coroutine      *)
(* that awaits nothing: the event loop runs the calls it has in flight in  *)
(* any order, and nothing comes between the statements of one              *)
(* execute_write.  A call is taken in three steps, which the model lets    *)
(* calls interleave: it makes its identifier and binds its parameters, it  *)
(* runs execute_write (the INSERT with its constraint check and the commit *)
(* are one transaction of the store), it returns its content.              *)
(***************************************************************************)
Tasks == 1..MaxTasks

Idle == [pc |-> "idle", arguments |-> EmptyBag, customer_id |-> Null, outcome |-> NoCall]

\* str(uuid.uuid4()) of a call in flight: a text that no row and no other
\* call carries
FreshUuid(tag) ==
    LET used == {c.id : c \in customers} \cup {inflight[t].customer_id : t \in Tasks}
    IN Uuid(tag, CHOOSE n \in 1..(MaxTasks + 1) :
                    /\ Uuid(tag, n) \notin used
                    /\ \A k \in 1..(n - 1) : Uuid(tag, k) \in used)

\* the call reaches the handler
Dispatch(t, arguments) ==
    /\ inflight[t].pc = "idle"
    /\ inflight' = [inflight EXCEPT ![t] = [Idle EXCEPT !.pc = "dispatched",
                                                        !.arguments = arguments]]
    /\ UNCHANGED <<customers, interactions, deals, now, conn_left_open, result>>

\* customer_id = str(uuid.uuid4()) and the params tuple
Bind(t) ==
    /\ inflight[t].pc = "dispatched"
    /\ LET tag == TagOf(Get(inflight[t].arguments, "email", Text("")))
       IN inflight' = [inflight EXCEPT ![t].pc = "bound", ![t].customer_id = FreshUuid(tag)]
    /\ UNCHANGED <<customers, interactions, deals, now, conn_left_open, result>>

\* db.execute_write(query, params), and the text the handler makes of how it ends
ExecuteWrite(t) ==
    /\ inflight[t].pc = "bound"
    /\ LET arguments == inflight[t].arguments
           customer_id == inflight[t].customer_id
           params == AddCustomerParams(customer_id, arguments)
           row == CustomerRow(params)
           err == IF BindError(params) THEN "Error binding parameter"
                  ELSE CustomersConstraint(customers, row)
           outcome ==
               IF err = ""
               THEN Content("crm", "add_customer", arguments,
                            "Customer successfully added with ID: {}", customer_id, <<>>, 1)
               ELSE IF err = "UNIQUE constraint failed: customers.email"
               THEN Content("crm", "add_customer", arguments,
                            "Error: Customer with email {} already exists",
                            Get(arguments, "email", Null), <<>>, 1)
               ELSE IF BindError(params)
               THEN Content("crm", "add_customer", arguments,
                            "Error adding customer: {}", Text(err), <<>>, 1)
               ELSE Content("crm", "add_customer", arguments,
                            "Database error: {}", Text(err), <<>>, 1)
       IN /\ Connect
          /\ customers' = IF err = "" THEN customers \cup {row} ELSE customers
          /\ inflight' = [inflight EXCEPT ![t].pc = "executed", ![t].outcome = outcome]
    /\ UNCHANGED <<interactions, deals, now, result>>

\* the content goes back to the caller
Respond(t) ==
    /\ inflight[t].pc = "executed"
    /\ inflight' = [inflight EXCEPT ![t].pc = "returned"]
    /\ \E finalized \in BOOLEAN : conn_left_open' = (conn_left_open /\ ~finalized)
    /\ UNCHANGED <<customers, interactions, deals, now, result>>

(***************************************************************************)
(* The servers after start-up: init_database has created the three tables *)
(* (empty in a new database file).                                         *)
(***************************************************************************)
Init ==
    /\ customers = {}
    /\ interactions = {}
    /\ deals = {}
    /\ now = 0
    /\ conn_left_open = FALSE
    /\ result = NoCall
    /\ inflight = [t \in Tasks |-> Idle]

(***************************************************************************)
(* The outcome goes back to the caller and the handler's frame is gone.    *)
(* The runtime closes a connection when it finalizes the object: at once   *)
(* when it counts references, at some later collection when it does not.   *)
(***************************************************************************)
Return ==
    /\ ~Accept
    /\ result' = NoCall
    /\ \E finalized \in BOOLEAN : conn_left_open' = (conn_left_open /\ ~finalized)
    /\ UNCHANGED <<customers, interactions, deals, now, inflight>>

\* a collection of the runtime finalizes every unreachable connection
Collect ==
    /\ Accept
    /\ conn_left_open
    /\ conn_left_open' = FALSE
    /\ UNCHANGED <<customers, interactions, deals, now, result, inflight>>

\* both servers at one instant of the clock
Next ==
    \/ Accept /\ \E arguments \in AddCustomerBags : AddCustomer(arguments)
    \/ Accept /\ \E arguments \in SearchCustomersBags : SearchCustomers(arguments)
    \/ Accept /\ \E arguments \in GetCustomerBags : GetCustomer(arguments)
    \/ Accept /\ \E arguments \in AddInteractionBags : AddInteraction(arguments)
    \/ Accept /\ \E arguments \in AddDealBags : AddDeal(arguments)
    \/ Accept /\ PopulateSampleData(EmptyBag)
    \/ Accept /\ AnalyzeCustomersByIndustry(EmptyBag)
    \/ Accept /\ AnalyzeDealPipeline(EmptyBag)
    \/ Accept /\ GetTopCustomersByRevenue(EmptyBag)
    \/ Accept /\ \E arguments \in GetRecentInteractionsBags : GetRecentInteractions(arguments)
    \/ Accept /\ \E name \in CallNames : CrmUnknownTool(name, EmptyBag)
    \/ Accept /\ \E arguments \in ReadFileBags : ReadFile(arguments)
    \/ Accept /\ \E arguments \in ListFilesBags : ListFiles(arguments)
    \/ Accept /\ \E name \in CallNames : FileUnknownTool(name, EmptyBag)
    \/ Accept /\ \E server \in {"crm", "file-reader"} : HandleListTools(server)
    \/ Return
    \/ Collect

Spec == Init /\ [][Next]_vars

\* the bags of the run with the clock: one customer to join to, the deals
\* that leave stage out
ClockAddCustomerBags == {b \in AddCustomerBags : Get(b, "email", Null) = Text("ann@x.com")}
ClockAddDealBags == {b \in AddDealBags : ~Has(b, "stage")}

\* the tools that read the clock or store what it says, with the clock running
NextClock ==
    \/ Accept /\ \E arguments \in ClockAddCustomerBags : AddCustomer(arguments)
    \/ Accept /\ \E arguments \in SearchCustomersBags : SearchCustomers(arguments)
    \/ Accept /\ \E arguments \in AddInteractionBags : AddInteraction(arguments)
    \/ Accept /\ \E arguments \in ClockAddDealBags : AddDeal(arguments)
    \/ Accept /\ \E arguments \in GetRecentInteractionsBags : GetRecentInteractions(arguments)
    \/ Accept /\ \E arguments \in ListFilesBags : ListFiles(arguments)
    \/ Return
    \/ Collect
    \/ Tick

SpecClock == Init /\ [][NextClock]_vars

\* add_customer calls in flight together on the CRM server
NextConcurrent ==
    \/ \E t \in Tasks : \E arguments \in AddCustomerBags : Dispatch(t, arguments)
    \/ \E t \in Tasks : Bind(t)
    \/ \E t \in Tasks : ExecuteWrite(t)
    \/ \E t \in Tasks : Respond(t)
    \/ Collect

SpecConcurrent == Init /\ [][NextConcurrent]_vars

(***************************************************************************)
(* Properties.  result holds the outcome of the call being answered, with  *)
(* the name and the argument bag it was made with; the tables do not move  *)
(* while an outcome is waiting.                                            *)
(***************************************************************************)
Answered == result.outcome \in {"content", "raise"}

\* the name is in the sequence handle_list_tools of the called server returns
Listed == result.name \in ToolNames(result.server)

UnknownToolRaised ==
    /\ result.outcome = "raise"
    /\ result.exc = "ValueError"
    /\ result.fmt = "Unknown tool: {}"

\* the texts the handlers begin an error message with
ErrorFmts ==
    {"Error: Customer with email {} already exists", "Database error: {}",
     "Error adding customer: {}", "Error searching customers: {}",
     "Invalid search field: {}. Use: all, name, email, company, or industry",
     "Error retrieving customer: {}", "Error adding interaction: {}", "Error adding deal: {}",
     "Error retrieving recent interactions: {}",
     "Error: File '{}' does not exist", "Error: '{}' is not a file",
     "Error: Permission denied reading '{}'",
     "Error: Cannot read '{}' - file appears to be binary or not UTF-8 encoded",
     "Error: Directory '{}' does not exist", "Error: '{}' is not a directory",
     "Error: Permission denied accessing '{}'"}

\* C1: a call of either server returns content blocks or, only for a name
\* that is not a registered tool, raises the unknown-tool failure; no other
\* exception leaves handle_call_tool.
C1_OnlyUnknownToolEscapes ==
    result.outcome = "raise" => (UnknownToolRaised /\ ~Listed)

\* C2: a name that handle_list_tools does not return raises
\* 'Unknown tool: <name>', with no content block and no store or filesystem
\* call; a name that it returns never raises the unknown-tool failure.
C2_UnknownToolIffNotListed ==
    Answered =>
        /\ ~Listed => /\ UnknownToolRaised
                      /\ result.arg = Text(result.name)
                      /\ result.rows = <<>>
                      /\ result.calls = 0
        /\ Listed => ~UnknownToolRaised

\* an unlisted name has been called on each server's side of the registry
C2_Witness ==
    /\ UnknownToolRaised
    /\ result.server = "crm"
    /\ result.name \in ToolNames("file-reader") \cup {"delete_customer"}

\* the required fields of the called tool that the argument bag omits
MissingRequired ==
    {k \in Range(ToolDef(result.server, result.name).required) : ~Has(result.args, k)}

\* C3: a call that omits a field its tool's schema lists as required
\* returns an Error content block naming that field and makes no store or
\* filesystem call (so add_customer without first_name, last_name or email
\* inserts no customers row).
C3_MissingRequiredIsRejected ==
    (Answered /\ Listed /\ MissingRequired # {}) =>
        /\ result.outcome = "content"
        /\ result.fmt \in ErrorFmts
        /\ \E k \in MissingRequired : result.arg = KeyErrorOf(k)
        /\ result.calls = 0

\* the fields of the called tool that carry a value outside their declared enum
OutsideEnum ==
    LET enum == ToolDef(result.server, result.name).enum
    IN {k \in DOMAIN enum \cap DOMAIN result.args :
            result.args[k] \notin {Text(v) : v \in Range(enum[k])}}

\* C4: a call that supplies, for a field with a declared set of allowed
\* values, a value outside that set returns an invalid-value Error and
\* neither writes to nor queries the store (so add_deal with a stage outside
\* the six declared ones stores no deals row).
C4_OutsideEnumIsRejected ==
    (Answered /\ Listed /\ MissingRequired = {} /\ OutsideEnum # {}) =>
        /\ result.outcome = "content"
        /\ result.fmt \in ErrorFmts
        /\ result.calls = 0

\* the value has the JSON type the schema gives the field
HasType(v, type) ==
    IF type = "string" THEN v[1] = "text"
    ELSE IF type = "integer" THEN v[1] = "integer"
    ELSE IsNumber(v)

\* every field of the bag that the tool's schema declares has the declared type
WellTyped(server, name, args) ==
    \A p \in Range(ToolDef(server, name).properties) :
        Has(args, p[1]) => HasType(args[p[1]], p[2])

AddCustomerSucceeded ==
    /\ result.server = "crm"
    /\ result.name = "add_customer"
    /\ result.fmt = "Customer successfully added with ID: {}"

DuplicateEmailError ==
    /\ result.server = "crm"
    /\ result.name = "add_customer"
    /\ result.fmt = "Error: Customer with email {} already exists"

\* C5: no two customers rows ever share an email.  An add_customer of
\* well-typed arguments whose email no row has succeeds and adds the one row
\* of that email; an add_customer whose email a row has already adds no row
\* and returns an error, the duplicate-email one when its arguments are
\* well typed; the duplicate-email error names the email of the call, and
\* the table then holds exactly one row of that email.
C5_EmailUnique ==
    /\ [](\A c1, c2 \in customers : c1.email = c2.email => c1 = c2)
    /\ [](DuplicateEmailError =>
            /\ result.arg = result.args["email"]
            /\ Cardinality({c \in customers : c.email = result.arg}) = 1)
    /\ [][(Accept /\ AddCustomerSucceeded' /\ Has(result'.args, "email")) =>
            /\ ~\E c \in customers : c.email = result'.args["email"]
            /\ \E c \in customers' : /\ c.email = result'.args["email"]
                                     /\ c \notin customers
                                     /\ customers' = customers \cup {c}]_vars
    /\ [][(/\ Accept
           /\ result'.server = "crm" /\ result'.name = "add_customer"
           /\ Has(result'.args, "email")
           /\ \E c \in customers : c.email = result'.args["email"]) =>
            /\ customers' = customers
            /\ result'.outcome = "content"
            /\ result'.fmt \in ErrorFmts
            /\ WellTyped("crm", "add_customer", result'.args) => DuplicateEmailError']_vars
    /\ [][(/\ Accept
           /\ result'.server = "crm" /\ result'.name = "add_customer"
           /\ Has(result'.args, "email")
           /\ WellTyped("crm", "add_customer", result'.args)
           /\ ~\E c \in customers : c.email = result'.args["email"]) =>
            AddCustomerSucceeded']_vars

\* a second add_customer of an email that an earlier add_customer stored
\* has been answered
C5_Witness ==
    /\ DuplicateEmailError
    /\ result.args["email"] = Text("ann@x.com")
    /\ Cardinality({c \in customers : c.email = Text("ann@x.com")}) = 1
    /\ Cardinality(customers) > 1

\* equal as JSON values: the same value, or two numbers of the same amount
\* (a REAL column gives a whole number back as the float of that amount)
SameValue(x, y) == x = y \/ (IsNumber(x) /\ IsNumber(y) /\ x[2] = y[2])

\* the identifier add_customer hands out for the bag: the first of its email,
\* as no row carries the email when the call succeeds
CustomerIds(bag) == {Uuid4(TagOf(Get(bag, "email", Text(""))), {})}

\* add_customer of the bag has answered with the identifier
Added(bag, id) == AddCustomerSucceeded /\ result.args = bag /\ result.arg = id

\* get_customer of the identifier has answered
Got(id) ==
    /\ result.server = "crm"
    /\ result.name = "get_customer"
    /\ Has(result.args, "customer_id")
    /\ result.args["customer_id"] = id

\* the answer is the record of one customer, every field of the bag in it
\* with the value of the bag
ReturnsSupplied(bag) ==
    /\ result.outcome = "content"
    /\ result.fmt = "Customer Details:"
    /\ \E customer \in customers :
          /\ result.rows = <<{customer}>>
          /\ \A k \in DOMAIN bag : SameValue(customer[k], bag[k])

\* C6: once add_customer has succeeded for an argument bag and answered
\* with an identifier, every later get_customer of that identifier returns
\* a customer record that has each supplied field with the supplied value,
\* whatever calls were made in between.
C6_RoundTrip ==
    \A bag \in AddCustomerBags : \A id \in CustomerIds(bag) :
        [](Added(bag, id) => [](Got(id) => ReturnsSupplied(bag)))

\* get_customer has returned the record of a customer that was added with
\* all nine fields, after other rows were stored
C6_Witness ==
    /\ Got(Uuid("bo@y.org", 1))
    /\ result.fmt = "Customer Details:"
    /\ \E customer \in customers :
          /\ result.rows = <<{customer}>>
          /\ customer.annual_revenue = Real(7000000)
          /\ customer.company = Text("TechCorp")
    /\ Cardinality(customers) > 1
    /\ deals # {}

\* the rows of a result, whatever their order
Rows(results) == UNION Range(results)

Called(server, name) ==
    /\ result.server = server
    /\ result.name = name
    /\ result.outcome = "content"

\* the interactions of a known customer that are at most d days old
Within(d) ==
    {i \in interactions : /\ \E c \in customers : c.id = i.customer_id
                          /\ now - i.interaction_date <= 24 * d}

C8_NoConnectionOutlivesCall == Accept => ~conn_left_open

\* the rank the pipeline is to be ordered by
FixedRank(stage) ==
    CASE stage = Text("prospecting") -> 1
      [] stage = Text("qualification") -> 2
      [] stage = Text("proposal") -> 3
      [] stage = Text("negotiation") -> 4
      [] stage = Text("closed-won") -> 5
      [] stage = Text("closed-lost") -> 6
      [] OTHER -> 7

\* C9: analyze_deal_pipeline returns one group for each distinct stage of
\* the stored deals, counting the deals of that stage, the groups in the
\* order of the fixed rank (prospecting, qualification, proposal,
\* negotiation, closed-won, closed-lost, then any other stage); with no
\* deals it returns the text 'No deals in pipeline', which is no error.
C9_PipelineByFixedRank ==
    (result.server = "crm" /\ result.name = "analyze_deal_pipeline") =>
        /\ result.outcome = "content"
        /\ result.fmt \notin ErrorFmts
        /\ deals = {} => result.fmt = "No deals in pipeline" /\ result.rows = <<>>
        /\ deals # {} =>
              /\ result.fmt = "Deal Pipeline Analysis:"
              /\ {g.stage : g \in Rows(result.rows)} = {d.stage : d \in deals}
              /\ Count(result.rows) = Cardinality({d.stage : d \in deals})
              /\ \A g \in Rows(result.rows) :
                     g.deal_count = Integer(Cardinality({d \in deals : d.stage = g.stage}))
              /\ \A i, j \in DOMAIN result.rows :
                     i < j => \A g \in result.rows[i], h \in result.rows[j] :
                                  FixedRank(g.stage) < FixedRank(h.stage)
              /\ \A i \in DOMAIN result.rows :
                     \A g, h \in result.rows[i] : FixedRank(g.stage) = FixedRank(h.stage)

\* deals of the stages closed-won, prospecting and negotiation are stored
\* and the pipeline came back as prospecting, negotiation, closed-won
C9_Witness ==
    /\ Called("crm", "analyze_deal_pipeline")
    /\ {d.stage : d \in deals} =
          {Text("closed-won"), Text("prospecting"), Text("negotiation")}
    /\ Len(result.rows) = 3
    /\ \E g \in result.rows[1] : g.stage = Text("prospecting")
    /\ \E g \in result.rows[2] : g.stage = Text("negotiation")
    /\ \E g \in result.rows[3] : g.stage = Text("closed-won")

\* C10: get_recent_interactions with days = d returns exactly the
\* interactions, each with the names of its customer, whose timestamp is
\* no more than d days before the time of the call, the newest first.
C10_RecentWindow ==
    (/\ Called("crm", "get_recent_interactions")
     /\ Has(result.args, "days")
     /\ result.args["days"][1] = "integer") =>
        LET d == result.args["days"][2]
        IN /\ result.fmt \notin ErrorFmts
           /\ {r.id : r \in Rows(result.rows)} = {i.id : i \in Within(d)}
           /\ Count(result.rows) = Cardinality(Within(d))
           /\ \A r \in Rows(result.rows) :
                  \E i \in Within(d) : \E c \in customers :
                      /\ i.id = r.id /\ c.id = i.customer_id
                      /\ r.interaction_date = i.interaction_date
                      /\ r.customer_id = i.customer_id
                      /\ r.interaction_type = i.interaction_type
                      /\ r.first_name = c.first_name
                      /\ r.last_name = c.last_name
                      /\ r.company = c.company
           /\ \A m, n \in DOMAIN result.rows :
                  m < n => \A r \in result.rows[m], q \in result.rows[n] :
                               r.interaction_date > q.interaction_date

\* with days = 1, an interaction of an hour ago is returned and one of
\* more than two days ago, of the same customer, is not
C10_Witness ==
    /\ Called("crm", "get_recent_interactions")
    /\ Has(result.args, "days")
    /\ result.args["days"] = Integer(1)
    /\ \E r \in Rows(result.rows) : now - r.interaction_date = 1
    /\ \E i \in interactions :
          /\ now - i.interaction_date >= 48
          /\ \E c \in customers : c.id = i.customer_id
          /\ i.id \notin {r.id : r \in Rows(result.rows)}

\* list_files has answered a call whose directory_path, when given, is a string
ListedPath ==
    /\ result.server = "file-reader"
    /\ result.name = "list_files"
    /\ IsStr(Get(result.args, "directory_path", Path(<<"~">>)))

\* the path of that call, the home directory in the place of a leading ~
AskedPath == ExpandUser(Get(result.args, "directory_path", Path(<<"~">>))[2])

\* the answer lists every entry of the directory once, in ascending order
\* of code points, each marked as a directory or as a file
ListsEveryEntry(path) ==
    /\ result.outcome = "content"
    /\ result.fmt = "Contents of '{}':"
    /\ result.arg = Path(path)
    /\ {item.name : item \in Range(result.rows)} = FileSystem[path].entries
    /\ Len(result.rows) = Cardinality(FileSystem[path].entries)
    /\ \A i, j \in DOMAIN result.rows :
           i < j => SeqLess(Chars(result.rows[i].name), Chars(result.rows[j].name))
    /\ \A item \in Range(result.rows) :
           item.marker = IF IsDir(path \o <<item.name>>) THEN "dir" ELSE "file"

AnswersError(fmt, path) ==
    /\ result.outcome = "content"
    /\ result.fmt = fmt
    /\ result.arg = Path(path)
    /\ result.rows = <<>>

\* C11 as stated: a path that does not exist gives the 'does not exist'
\* error, an existing path that is no directory gives the 'is not a
\* directory' error, and every existing directory gives the 'Contents of'
\* message with all its entries.
C11_EveryDirectoryIsListed ==
    ListedPath =>
        /\ ~Exists(AskedPath) =>
              AnswersError("Error: Directory '{}' does not exist", AskedPath)
        /\ (Exists(AskedPath) /\ ~IsDir(AskedPath)) =>
              AnswersError("Error: '{}' is not a directory", AskedPath)
        /\ IsDir(AskedPath) => ListsEveryEntry(AskedPath)

\* C11, amended: list_files probes existence, then type, then lists.  A
\* path that does not exist gives the 'does not exist' error; an existing
\* path that is no directory gives the 'is not a directory' error; an
\* existing directory that the process may list gives the 'Contents of'
\* message with every entry once, in ascending order of code points, each
\* marked directory or file (no entry for an empty directory); an existing
\* directory that the process may not list gives the 'Permission denied'
\* error.
C11_ReadableDirectoryIsListed ==
    ListedPath =>
        /\ ~Exists(AskedPath) =>
              AnswersError("Error: Directory '{}' does not exist", AskedPath)
        /\ (Exists(AskedPath) /\ ~IsDir(AskedPath)) =>
              AnswersError("Error: '{}' is not a directory", AskedPath)
        /\ (IsDir(AskedPath) /\ FileSystem[AskedPath].readable) =>
              ListsEveryEntry(AskedPath)
        /\ (IsDir(AskedPath) /\ ~FileSystem[AskedPath].readable) =>
              AnswersError("Error: Permission denied accessing '{}'", AskedPath)

\* the home directory, which holds files and directories, names in upper
\* and in lower case, has been listed
C11_Witness ==
    /\ ListedPath
    /\ AskedPath = Home
    /\ Len(result.rows) = 5
    /\ result.rows[1] = [marker |-> "file", name |-> "Zed.md"]
    /\ result.rows[3] = [marker |-> "dir", name |-> "docs"]

\* the names of a list of tools, in its order
NamesOf(tools) == [i \in DOMAIN tools |-> tools[i].name]

\* C12: whatever calls of handle_call_tool came before, handle_list_tools
\* returns the one sequence of its server: the same names in the same
\* order with the same schemas, no name twice.
C12_RegistryIsFixed ==
    result.outcome = "tools" =>
        /\ result.server = "crm" =>
              /\ result.rows = CrmListTools
              /\ NamesOf(result.rows) =
                    <<"add_customer", "search_customers", "get_customer", "add_interaction",
                      "add_deal", "populate_sample_data", "analyze_customers_by_industry",
                      "analyze_deal_pipeline", "get_top_customers_by_revenue",
                      "get_recent_interactions">>
        /\ result.server = "file-reader" =>
              /\ result.rows = FileListTools
              /\ NamesOf(result.rows) = <<"read_file", "list_files">>
        /\ \A i, j \in DOMAIN result.rows :
               result.rows[i].name = result.rows[j].name => i = j

\* the CRM server has listed its tools after calls have stored a customer
\* and a deal and left a connection behind
C12_Witness ==
    /\ result.outcome = "tools"
    /\ result.server = "crm"
    /\ customers # {}
    /\ deals # {}
    /\ conn_left_open

\* C13: every interactions row and every deals row carries the id of an
\* existing customers row as its customer_id (add_interaction and add_deal
\* with a customer_id that matches no customer insert nothing).
C13_RowsReferToCustomers ==
    /\ \A i \in interactions : \E c \in customers : c.id = i.customer_id
    /\ \A d \in deals : \E c \in customers : c.id = d.customer_id

\* the calls in flight whose execute_write has ended, carrying well-typed
\* arguments with the email
Executed(email) ==
    {t \in Tasks : /\ inflight[t].pc \in {"executed", "returned"}
                   /\ WellTyped("crm", "add_customer", inflight[t].arguments)
                   /\ Get(inflight[t].arguments, "email", Null) = email}

Succeeded(t) == inflight[t].outcome.fmt = "Customer successfully added with ID: {}"

\* C14: of the add_customer calls in flight together with one email that no
\* row had, however their steps interleave, exactly one returns success and
\* every other one the duplicate-email error naming the email, and the
\* table holds exactly one row of that email.
C14_OneWinnerPerEmail ==
    \A email \in {Get(b, "email", Null) : b \in AddCustomerBags} :
        Executed(email) # {} =>
            /\ Cardinality({t \in Executed(email) : Succeeded(t)}) = 1
            /\ \A t \in Executed(email) :
                   ~Succeeded(t) =>
                       /\ inflight[t].outcome.outcome = "content"
                       /\ inflight[t].outcome.fmt = "Error: Customer with email {} already exists"
                       /\ inflight[t].outcome.arg = email
            /\ Cardinality({c \in customers : c.email = email}) = 1

\* two calls of one email were in flight together and have both returned:
\* the one dispatched to the second slot won, the other got the error
C14_Witness ==
    /\ \A t \in {1, 2} :
           /\ inflight[t].pc = "returned"
           /\ inflight[t].arguments =
                 [first_name |-> Text("Ann"), last_name |-> Text("Lee"),
                  email |-> Text("ann@x.com")]
    /\ Succeeded(2)
    /\ inflight[1].outcome.fmt = "Error: Customer with email {} already exists"
    /\ Cardinality({c \in customers : c.email = Text("ann@x.com")}) = 1

====
